---- MODULE Spec2Model ----
(***************************************************************************)
(* Model of the sariaf HTTP router: the per-method routing tries, the      *)
(* registration of path patterns (Router.Handle / Node.add), the           *)
(* resolution of request paths (Router.Search / Node.find) and the serving *)
(* of requests through the middleware chain (Router.ServeHTTP /            *)
(* Node.ServeHTTP).  Search is modelled twice: as one atomic call, and     *)
(* step by step for goroutines that resolve concurrently.                  *)
(*                                                                         *)
(* A Go string is a sequence of one-character strings, so "/a/:x" is       *)
(* <<"/", "a", "/", ":", "x">>.  A trie node is identified by the sequence *)
(* of child keys leading to it from the root of its method's trie; the     *)
(* root is << >>.  n.Children[k] exists iff Append(n, k) is a node.        *)
(***************************************************************************)
EXTENDS Integers, Sequences, FiniteSets, TLC

\* ------------------------------------------------------------------ bounds
\* most segments in a registered pattern
MaxSegs == 2
\* most segments in a request path
MaxPathSegs == 2
\* most Handle calls in one behaviour
MaxHandles == 2
\* most middlewares on the router's stack
MaxMiddlewares == 2
\* number of goroutines calling Search concurrently
NumCalls == 2

\* ------------------------------------------------------- program constants
MethodAny == "ANY"
ErrNil == "nil"
ErrRouterDuplicate == "duplicate router path found"
ErrRouterSyntax == "invalid router syntax found"
\* the nil http.HandlerFunc and the handler Handle substitutes for it
NilHandler == "nil"
Noop == "Noop"
\* the nil interface{} of a RouterOption without Tag
NilTag == "nil"

\* --------------------------------------------------------------- the inputs
\* methods routes are registered under, and methods of requests
RegMethods == {"GET", MethodAny}
ReqMethods == {"GET", "POST", MethodAny}
\* the handler and optionFns passed to Handle: a nil handler without option,
\* or the handler h1 with Tag("t")
Payloads ==
    {[handler |-> NilHandler, optionFns |-> << >>],
     [handler |-> "h1", optionFns |-> <<"t">>]}
\* the segments patterns are built from
PatSegs == {<<"a">>, <<":", "x">>, <<"*", "y">>, << >>}
\* the segments request paths are built from
ReqSegs == {<<"a">>, <<"b">>, << >>}

RECURSIVE SegSeqs(_, _)
\* all sequences of 1..n segments from S
SegSeqs(S, n) ==
    IF n = 0 THEN {}
    ELSE LET shorter == SegSeqs(S, n - 1)
         IN  {<<s>> : s \in S} \cup shorter
                \cup {Append(q, s) : q \in shorter, s \in S}

RECURSIVE JoinSlash(_)
\* strings.Join(segs, "/")
JoinSlash(segs) ==
    IF Len(segs) = 0 THEN << >>
    ELSE IF Len(segs) = 1 THEN segs[1]
    ELSE segs[1] \o <<"/">> \o JoinSlash(Tail(segs))

\* the path string "/" + seg1 + "/" + seg2 ...
MkPath(segs) == <<"/">> \o JoinSlash(segs)

Patterns == {MkPath(q) : q \in SegSeqs(PatSegs, MaxSegs)}
ReqPaths == {MkPath(q) : q \in SegSeqs(ReqSegs, MaxPathSegs)}

\* patterns with two parameter names, none of them twice in a pattern
NameSegs == {<<"a">>, <<":", "x">>, <<":", "z">>}
NamePatterns ==
    {MkPath(q) : q \in {r \in SegSeqs(NameSegs, MaxSegs) :
                            \A i, j \in 1..Len(r) :
                                (i # j /\ Len(r[i]) > 1) => r[i] # r[j]}}

\* longer patterns and request paths, for routes registered below routes
MaxDeepSegs == 3
MaxDeepHandles == 3
DeepSegs == {<<"a">>, <<":", "x">>, <<"*", "y">>}
DeepPatterns == {MkPath(q) : q \in SegSeqs(DeepSegs, MaxDeepSegs)}
DeepReqPaths == {MkPath(q) : q \in SegSeqs({<<"a">>, <<"b">>}, MaxDeepSegs)}
DeepPayload == [handler |-> "h1", optionFns |-> <<"t">>]

\* routes and request paths of served requests, and the arguments of Use
ServePatterns == {MkPath(q) : q \in SegSeqs(DeepSegs, MaxSegs)}
ServePaths == {MkPath(q) : q \in SegSeqs({<<"a">>, <<"b">>}, MaxPathSegs)}
UseArgs == {<<"m1">>, <<"m2">>, <<"m1", "m2">>}

\* patterns and request paths with the bare sigils * and : as segments
BareSegs == {<<"a">>, <<":", "x">>, <<"*">>, <<":">>}
BarePatterns == {MkPath(q) : q \in SegSeqs(BareSegs, MaxSegs)}
BareReqPaths ==
    {MkPath(q) : q \in SegSeqs({<<"a">>, <<"*">>, <<":">>}, MaxPathSegs)}

\* ------------------------------------------------------------ string library
\* strings.TrimPrefix(s, "/")
TrimPrefix(s) == IF Len(s) > 0 /\ s[1] = "/" THEN Tail(s) ELSE s

RECURSIVE Split(_)
\* strings.Split(s, "/"): never empty, Split("") = [""]
Split(s) ==
    IF \A i \in 1..Len(s) : s[i] # "/" THEN <<s>>
    ELSE LET i == CHOOSE i \in 1..Len(s) :
                      s[i] = "/" /\ \A j \in 1..(i - 1) : s[j] # "/"
         IN  <<SubSeq(s, 1, i - 1)>> \o Split(SubSeq(s, i + 1, Len(s)))

RECURSIVE CleanStack(_, _)
\* the components kept by filepath.Clean for a rooted path: empty and "."
\* components are dropped, ".." drops the component before it (or nothing at
\* the root)
CleanStack(comps, stack) ==
    IF Len(comps) = 0 THEN stack
    ELSE LET c == Head(comps)
         IN  IF c = << >> \/ c = <<".">> THEN CleanStack(Tail(comps), stack)
             ELSE IF c = <<".", ".">>
                  THEN CleanStack(Tail(comps),
                          IF Len(stack) = 0 THEN stack
                          ELSE SubSeq(stack, 1, Len(stack) - 1))
             ELSE CleanStack(Tail(comps), Append(stack, c))

\* filepath.Join(append([]string{"/"}, segs...)...) on a slash-separated
\* platform: Clean("/" + "/" + seg1 + "/" + seg2 ...)
FilepathJoinRoot(segs) == <<"/">> \o JoinSlash(CleanStack(segs, << >>))

\* ------------------------------------------------------------------- state
VARIABLES
    trees,       \* Router.trees: method -> trie (node id -> Node)
    registered,  \* history: <<method, pattern>> of every successful Handle
                 \*          -> the handler and option stored by it
    last,        \* the last call and what it returned
    nHandle,     \* number of Handle calls so far
    middlewares, \* Router.middlewares
    served,      \* what the last ServeHTTP call invoked
    calls        \* the concurrent Search calls: goroutine -> its position
                 \*          in Search/find and its local variables

vars == <<trees, registered, last, nHandle, middlewares, served, calls>>

\* the root Node built by Handle
RootNode ==
    [Path |-> <<"/">>, Key |-> << >>, Param |-> << >>, Star |-> FALSE,
     Handler |-> NilHandler, Option |-> << >>]

\* n.Children[k] of node n in trie t
HasChild(t, n, k) == Append(n, k) \in DOMAIN t

\* map update m[k] = v
MapPut(m, k, v) == [x \in (DOMAIN m) \cup {k} |-> IF x = k THEN v ELSE m[x]]

EmptyMap == [x \in {} |-> << >>]

NoCall ==
    [op |-> "none", method |-> "", path |-> << >>, handler |-> NilHandler,
     optionFns |-> << >>, err |-> ErrNil, found |-> FALSE, tree |-> "",
     node |-> << >>, params |-> EmptyMap, nilParams |-> TRUE]

\* no panic raised
NoPanic == << >>

\* a request served without any call made yet
NoServe ==
    [notFound |-> 0, entered |-> << >>, handler |-> << >>, panicAt |-> -1,
     panic |-> NoPanic, panicHandler |-> << >>, escaped |-> FALSE]

\* a goroutine that has not called Search yet
IdleCall ==
    [pc |-> "idle", method |-> "", path |-> << >>, tree |-> "",
     second |-> FALSE, i |-> 0, cur |-> << >>, params |-> EmptyMap,
     result |-> [found |-> FALSE, tree |-> "", node |-> << >>,
                 params |-> EmptyMap, nilParams |-> TRUE]]

Init ==
    /\ trees = EmptyMap
    /\ registered = EmptyMap
    /\ last = NoCall
    /\ nHandle = 0
    /\ middlewares = << >>
    /\ served = NoServe
    /\ calls = [p \in 1..NumCalls |-> IdleCall]

\* ------------------------------------------------------------- Node.add
\* the reserved child key of captures
WildKey == <<"*">>

\* len(k) > 1 && k[0] == '*'
IsStarSeg(k) == Len(k) > 1 /\ k[1] = "*"

\* len(k) > 1 && (k[0] == ':' || k[0] == '*')
IsCapture(k) == Len(k) > 1 /\ (k[1] = ":" \/ k[1] = "*")

\* the value of stars after the first loop of add, when it did not return
CountStars(slice) == Cardinality({i \in 1..Len(slice) : IsStarSeg(slice[i])})

\* a first loop that lets a second *name through
TooManyStars_Lax(slice) == CountStars(slice) > 2

\* the first loop of add returns ErrRouterSyntax
TooManyStars(slice) == CountStars(slice) > 1

\* param and k after the rewriting at the head of the second loop
ParamOf(k) == IF IsCapture(k) THEN Tail(k) ELSE << >>
\* captures keyed by their own text instead of the reserved key
KeyOf_Text(k) == k

\* the child key of segment k: "*" for every capture

KeyOf(k) == IF IsCapture(k) THEN WildKey ELSE k

\* the Node literal built for a missing child
NewNode(path, k, param, stars, option) ==
    [Path |-> path, Key |-> k, Param |-> param, Star |-> stars > 0,
     Handler |-> NilHandler, Option |-> option]

\* a second loop without the conflict check
ConflictCheck_Off(stars, starPrev) == FALSE

\* the conflict check at the head of the second loop is taken
ConflictCheck(stars, starPrev) == stars > 0 /\ starPrev

RECURSIVE addLoop(_, _, _, _, _, _)
\* the second loop of add from segment i on; st holds the trie and the locals
\* current, duplicate and starPrev, and err once the loop returned an error
addLoop(slice, i, stars, path, option, st) ==
    IF i > Len(slice) THEN st
    ELSE LET param == ParamOf(slice[i])
             k == KeyOf(slice[i])
             next == Append(st.current, k)
         IN  IF ConflictCheck(stars, st.starPrev)
             THEN IF HasChild(st.t, st.current, k)
                  THEN st
                  ELSE [st EXCEPT !.err = ErrRouterSyntax]
             ELSE IF HasChild(st.t, st.current, k)
                  THEN addLoop(slice, i + 1, stars, path, option,
                          [st EXCEPT !.starPrev = TRUE, !.current = next])
                  ELSE addLoop(slice, i + 1, stars, path, option,
                          [st EXCEPT !.duplicate = FALSE,
                                     !.t = MapPut(st.t, next,
                                              NewNode(path, k, param, stars, option)),
                                     !.current = next])

\* an add that overwrites instead of reporting the duplicate
DuplicateCheck_Off(duplicate) == ErrNil

\* the error add returns once the second loop has ended without error
DuplicateCheck(duplicate) == IF duplicate THEN ErrRouterDuplicate ELSE ErrNil

\* an add that stores the handler at the final node before it reports the
\* duplicate
add_StoreThenReject(t, path, handler, option) ==
    LET slice == Split(TrimPrefix(path))
    IN  IF TooManyStars(slice) THEN [err |-> ErrRouterSyntax, t |-> t]
        ELSE LET st == addLoop(slice, 1, CountStars(slice), path, option,
                          [t |-> t, current |-> << >>, duplicate |-> TRUE,
                           starPrev |-> FALSE, err |-> ErrNil])
             IN  IF st.err # ErrNil THEN [err |-> st.err, t |-> st.t]
                 ELSE [err |-> DuplicateCheck(st.duplicate),
                       t |-> [st.t EXCEPT ![st.current].Handler = handler]]

\* n.add(path, handler, r, option) on the trie t rooted at n:
\* the error returned and the trie afterwards
add(t, path, handler, option) ==
    LET slice == Split(TrimPrefix(path))
    IN  IF TooManyStars(slice) THEN [err |-> ErrRouterSyntax, t |-> t]
        ELSE LET st == addLoop(slice, 1, CountStars(slice), path, option,
                          [t |-> t, current |-> << >>, duplicate |-> TRUE,
                           starPrev |-> FALSE, err |-> ErrNil])
             IN  IF st.err # ErrNil THEN [err |-> st.err, t |-> st.t]
                 ELSE IF DuplicateCheck(st.duplicate) # ErrNil
                      THEN [err |-> DuplicateCheck(st.duplicate), t |-> st.t]
                 ELSE [err |-> ErrNil,
                       t |-> [st.t EXCEPT ![st.current].Handler = handler]]

\* a descent that tries the capture child before the literal one
FindNext_WildFirst(t, cur, k) ==
    IF HasChild(t, cur, WildKey) THEN Append(cur, WildKey)
    ELSE IF HasChild(t, cur, k) THEN Append(cur, k)
    ELSE << >>

\* ------------------------------------------------------------ Node.find
\* the child find descends into for segment k: the literal child, else the
\* capture child; << >> (the root, never a child) when there is neither
FindNext(t, cur, k) ==
    IF HasChild(t, cur, k) THEN Append(cur, k)
    ELSE IF HasChild(t, cur, WildKey) THEN Append(cur, WildKey)
    ELSE << >>

\* find stops at node n and binds the joined remainder
StopsAt(node) == node.Param # << >> /\ node.Star

\* the landed node is given up after the loop
NoLeaf(node) == node.Handler = NilHandler

RECURSIVE findLoop(_, _, _, _, _)
\* the loop of find from segment i on, and the code after it
findLoop(t, slice, i, cur, params) ==
    IF i > Len(slice)
    THEN LET star == Append(cur, WildKey)
             fix == HasChild(t, cur, WildKey) /\ t[star].Star
             cur2 == IF fix THEN star ELSE cur
             params2 == IF fix THEN MapPut(params, t[star].Param, <<"/">>)
                        ELSE params
         IN  IF NoLeaf(t[cur2])
             THEN [found |-> FALSE, node |-> << >>, params |-> params2]
             ELSE [found |-> TRUE, node |-> cur2, params |-> params2]
    ELSE LET k == slice[i]
             next == FindNext(t, cur, k)
         IN  IF next = << >>
             THEN [found |-> FALSE, node |-> << >>, params |-> params]
             ELSE IF StopsAt(t[next])
                  THEN [found |-> TRUE, node |-> next,
                        params |-> MapPut(params, t[next].Param,
                            FilepathJoinRoot(SubSeq(slice, i, Len(slice))))]
             ELSE IF t[next].Param # << >>
                  THEN findLoop(t, slice, i + 1, next,
                                MapPut(params, t[next].Param, k))
             ELSE findLoop(t, slice, i + 1, next, params)

\* n.find(path) on the trie t rooted at n
find(t, path) == findLoop(t, Split(TrimPrefix(path)), 1, << >>, EmptyMap)

\* --------------------------------------------------------- Router.Search
NilResult ==
    [found |-> FALSE, tree |-> "", node |-> << >>, params |-> EmptyMap,
     nilParams |-> TRUE]

\* the result of t.find(path) on the trie of method m
FindIn(tr, m, path) ==
    LET f == find(tr[m], path)
    IN  [found |-> f.found, tree |-> IF f.found THEN m ELSE "",
         node |-> f.node, params |-> f.params, nilParams |-> FALSE]

\* a Search that gives up when the method has no trie of its own
FirstTree_OwnOnly(tr, method) == IF method \in DOMAIN tr THEN method ELSE ""

\* the trie Search resolves in first: the method's own, else the ANY trie;
\* "" when there is none
FirstTree(tr, method) ==
    IF method \in DOMAIN tr THEN method
    ELSE IF method # MethodAny /\ MethodAny \in DOMAIN tr THEN MethodAny
    ELSE ""

\* r.Search(method, path) on the method map tr
Search(tr, method, path) ==
    LET m1 == FirstTree(tr, method)
    IN  IF m1 = "" THEN NilResult
        ELSE LET r1 == FindIn(tr, m1, path)
             IN  IF r1.found \/ method = MethodAny THEN r1
                 ELSE IF MethodAny \notin DOMAIN tr THEN NilResult
                 ELSE FindIn(tr, MethodAny, path)

\* the handler stored as given, nil included
HandlerOrNoop_Keep(handler) == handler

\* --------------------------------------------------------- Router.Handle
\* the handler Handle stores
HandlerOrNoop(handler) == IF handler = NilHandler THEN Noop ELSE handler

\* the RouterOption built from optionFns, as the one-element sequence
\* holding its Tag (<< >> is the nil *RouterOption)
BuildOption(optionFns) ==
    IF Len(optionFns) = 0 THEN <<NilTag>> ELSE <<optionFns[Len(optionFns)]>>

\* a new method starting from the trie of a method that already has one
WithRoot_Shared(tr, method) ==
    IF method \in DOMAIN tr THEN tr
    ELSE IF DOMAIN tr = {} THEN MapPut(tr, method, [n \in {<< >>} |-> RootNode])
    ELSE MapPut(tr, method, tr[CHOOSE m \in DOMAIN tr : TRUE])

\* r.trees after the lazy creation of the method's root
WithRoot(tr, method) ==
    IF method \in DOMAIN tr THEN tr
    ELSE MapPut(tr, method, [n \in {<< >>} |-> RootNode])

\* ------------------------------------------------------- Node.ServeHTTP
\* the value a panicking handler or middleware passes to panic, and the
\* runtime error raised by the call of a nil func
PanicValue(layer) == <<"panic", layer>>
NilCallPanic == <<"nil pointer dereference">>

\* a ServeHTTP without the deferred recover
Recover_Off(panic) == [panicHandler |-> << >>, escaped |-> panic # NoPanic]

\* the deferred func: a recovered panic goes to r.panicHandler, once
Recover(panic) ==
    [panicHandler |-> IF panic # NoPanic THEN <<panic>> ELSE << >>,
     escaped |-> FALSE]

\* a chain entered in the order the middlewares were added
NodeServeHTTP_InOrder(node, ctx, mws, panicAt) ==
    [notFound |-> 0,
     entered |-> mws,
     handler |-> IF panicAt < 1 /\ node.Handler # NilHandler
                 THEN <<[Handler |-> node.Handler, Params |-> ctx.Params,
                         Option |-> ctx.Option]>>
                 ELSE << >>,
     panicAt |-> panicAt,
     panic |-> IF panicAt >= 1 THEN PanicValue(mws[panicAt])
               ELSE IF node.Handler = NilHandler THEN NilCallPanic
               ELSE IF panicAt = 0 THEN PanicValue(node.Handler)
               ELSE NoPanic,
     panicHandler |-> Recover(IF panicAt >= 1 THEN PanicValue(mws[panicAt])
               ELSE IF node.Handler = NilHandler THEN NilCallPanic
               ELSE IF panicAt = 0 THEN PanicValue(node.Handler)
               ELSE NoPanic).panicHandler,
     escaped |-> FALSE]

\* n.ServeHTTP(w, req) with ctx in the request context and the stack mws:
\* the chain is entered from the last middleware of mws down to the first
\* and then the node's handler; the layer panicAt panics when entered, and
\* the call of a nil handler panics in the runtime
NodeServeHTTP(node, ctx, mws, panicAt) ==
    LET L == Len(mws)
        lowest == IF panicAt >= 1 THEN panicAt ELSE 1
        reached == panicAt < 1
        called == reached /\ node.Handler # NilHandler
        panic == IF panicAt >= 1 THEN PanicValue(mws[panicAt])
                 ELSE IF node.Handler = NilHandler THEN NilCallPanic
                 ELSE IF panicAt = 0 THEN PanicValue(node.Handler)
                 ELSE NoPanic
        rec == Recover(panic)
    IN  [notFound |-> 0,
         entered |-> [i \in 1..(L - lowest + 1) |-> mws[L + 1 - i]],
         handler |-> IF called
                     THEN <<[Handler |-> node.Handler, Params |-> ctx.Params,
                             Option |-> ctx.Option]>>
                     ELSE << >>,
         panicAt |-> panicAt,
         panic |-> panic,
         panicHandler |-> rec.panicHandler,
         escaped |-> rec.escaped]

\* ---------------------------------------------------------------- actions
\* r.Handle(method, path, handler, optionFns...)
Handle(method, path, handler, optionFns) ==
    LET h == HandlerOrNoop(handler)
        option == BuildOption(optionFns)
        tr == WithRoot(trees, method)
        res == add(tr[method], path, h, option)
    IN  /\ trees' = [tr EXCEPT ![method] = res.t]
        /\ registered' =
              IF res.err = ErrNil /\ <<method, path>> \notin DOMAIN registered
              THEN MapPut(registered, <<method, path>>,
                          [Handler |-> h, Option |-> option])
              ELSE registered
        /\ last' = [NoCall EXCEPT !.op = "Handle", !.method = method,
                       !.path = path, !.handler = handler,
                       !.optionFns = optionFns, !.err = res.err]
        /\ nHandle' = nHandle + 1
        /\ UNCHANGED <<middlewares, served, calls>>

\* r.Search(method, path); Search changes nothing in the router, so a
\* Search right after a Search is not explored
DoSearch(method, path) ==
    /\ last.op # "Search"
    /\ LET res == Search(trees, method, path)
       IN  last' = [NoCall EXCEPT !.op = "Search", !.method = method,
                       !.path = path, !.found = res.found, !.tree = res.tree,
                       !.node = res.node, !.params = res.params,
                       !.nilParams = res.nilParams]
    /\ UNCHANGED <<trees, registered, nHandle, middlewares, served, calls>>

\* r.Use(mws...)
Use(mws) ==
    /\ middlewares' = middlewares \o mws
    /\ last' = [NoCall EXCEPT !.op = "Use"]
    /\ UNCHANGED <<trees, registered, nHandle, served, calls>>

\* r.ServeHTTP(w, req) for a request of the given method and path; panicAt
\* is the layer of the chain that panics (0: the route's handler, i: the
\* i-th middleware, -1: none)
ServeHTTP(method, path, panicAt) ==
    /\ last.op # "ServeHTTP"
    /\ LET res == Search(trees, method, path)
       IN  /\ last' = [NoCall EXCEPT !.op = "ServeHTTP", !.method = method,
                          !.path = path, !.found = res.found,
                          !.tree = res.tree, !.node = res.node,
                          !.params = res.params,
                          !.nilParams = res.nilParams]
           /\ served' =
                 IF ~res.found THEN [NoServe EXCEPT !.notFound = 1]
                 ELSE LET node == trees[res.tree][res.node]
                      IN  NodeServeHTTP(node,
                              [Params |-> res.params, Option |-> node.Option],
                              middlewares, panicAt)
    /\ UNCHANGED <<trees, registered, nHandle, middlewares, calls>>

\* one parameter map shared by all goroutines
ParamsOf_Shared(cs, p) == cs[1].params

\* ------------------------------------------------ concurrent Search calls
\* the parameter map of goroutine p: every find makes its own
ParamsOf(cs, p) == cs[p].params

\* t.find(path) has returned (found, node, params) to the Search of call c:
\* Search returns, or tries the ANY trie with a second find
FindReturn(c, found, node, params) ==
    IF found \/ c.method = MethodAny \/ c.second
    THEN [c EXCEPT !.pc = "done",
                   !.result = [found |-> found,
                               tree |-> IF found THEN c.tree ELSE "",
                               node |-> node, params |-> params,
                               nilParams |-> FALSE]]
    ELSE IF MethodAny \notin DOMAIN trees
         THEN [c EXCEPT !.pc = "done", !.result = NilResult]
    ELSE [c EXCEPT !.tree = MethodAny, !.second = TRUE, !.i = 1,
                   !.cur = << >>, !.params = EmptyMap]

\* goroutine p calls r.Search(method, path): the lookup of the trie
SearchBegin(p, method, path) ==
    /\ calls[p].pc = "idle"
    /\ LET m1 == FirstTree(trees, method)
       IN  calls' = [calls EXCEPT ![p] =
              IF m1 = ""
              THEN [IdleCall EXCEPT !.pc = "done", !.method = method,
                                    !.path = path, !.result = NilResult]
              ELSE [IdleCall EXCEPT !.pc = "find", !.method = method,
                                    !.path = path, !.tree = m1, !.i = 1]]
    /\ UNCHANGED <<trees, registered, last, nHandle, middlewares, served>>

\* goroutine p runs one iteration of the loop of find, or the code after
\* the loop
FindStep(p) ==
    /\ calls[p].pc = "find"
    /\ LET c == calls[p]
           t == trees[c.tree]
           slice == Split(TrimPrefix(c.path))
           params == ParamsOf(calls, p)
       IN  calls' = [calls EXCEPT ![p] =
              IF c.i > Len(slice)
              THEN LET star == Append(c.cur, WildKey)
                       fix == HasChild(t, c.cur, WildKey) /\ t[star].Star
                       cur2 == IF fix THEN star ELSE c.cur
                       params2 == IF fix
                                  THEN MapPut(params, t[star].Param, <<"/">>)
                                  ELSE params
                   IN  IF NoLeaf(t[cur2])
                       THEN FindReturn(c, FALSE, << >>, params2)
                       ELSE FindReturn(c, TRUE, cur2, params2)
              ELSE LET k == slice[c.i]
                       next == FindNext(t, c.cur, k)
                   IN  IF next = << >>
                       THEN FindReturn(c, FALSE, << >>, params)
                       ELSE IF StopsAt(t[next])
                            THEN FindReturn(c, TRUE, next,
                                    MapPut(params, t[next].Param,
                                        FilepathJoinRoot(
                                            SubSeq(slice, c.i, Len(slice)))))
                       ELSE [c EXCEPT !.i = c.i + 1, !.cur = next,
                                !.params = IF t[next].Param # << >>
                                           THEN MapPut(params, t[next].Param, k)
                                           ELSE params]]
    /\ UNCHANGED <<trees, registered, last, nHandle, middlewares, served>>

\* ---------------------------------------------------------- specifications
\* Routes of up to MaxSegs segments under two methods, requests of up to
\* MaxPathSegs segments under three.
Next ==
    \/ /\ nHandle < MaxHandles
       /\ \E method \in RegMethods, path \in Patterns, pl \in Payloads :
             Handle(method, path, pl.handler, pl.optionFns)
    \/ \E method \in ReqMethods, path \in ReqPaths : DoSearch(method, path)

Spec == Init /\ [][Next]_vars

\* GET routes whose parameters have different names.
NextNames ==
    \/ /\ nHandle < MaxHandles
       /\ \E path \in NamePatterns, pl \in Payloads :
             Handle("GET", path, pl.handler, pl.optionFns)
    \/ \E path \in ReqPaths : DoSearch("GET", path)

SpecNames == Init /\ [][NextNames]_vars

\* Up to MaxDeepHandles GET routes of up to MaxDeepSegs segments.
NextDeep ==
    /\ nHandle < MaxDeepHandles
    /\ \E path \in DeepPatterns :
          Handle("GET", path, DeepPayload.handler, DeepPayload.optionFns)

SpecDeep == Init /\ [][NextDeep]_vars

\* Registrations alone: the routes of Spec, with no request in between.
NextReg ==
    /\ nHandle < MaxHandles
    /\ \E method \in RegMethods, path \in Patterns, pl \in Payloads :
          Handle(method, path, pl.handler, pl.optionFns)

SpecReg == Init /\ [][NextReg]_vars

\* Served requests: GET routes, middlewares, and GET requests in which any
\* one layer of the chain may panic.
NextServe ==
    \/ /\ nHandle < MaxHandles
       /\ \E path \in ServePatterns :
             Handle("GET", path, DeepPayload.handler, DeepPayload.optionFns)
    \/ \E mws \in UseArgs :
          /\ Len(middlewares) + Len(mws) <= MaxMiddlewares
          /\ Use(mws)
    \/ \E path \in ServePaths, panicAt \in -1..Len(middlewares) :
          ServeHTTP("GET", path, panicAt)

SpecServe == Init /\ [][NextServe]_vars

\* Concurrent resolution: routes are registered first; then NumCalls
\* goroutines call Search, their steps interleaved in any order.
NextConc ==
    \/ /\ nHandle < MaxHandles
       /\ \A p \in 1..NumCalls : calls[p].pc = "idle"
       /\ \E method \in RegMethods, path \in ServePatterns :
             Handle(method, path, DeepPayload.handler, DeepPayload.optionFns)
    \/ \E p \in 1..NumCalls, path \in ServePaths : SearchBegin(p, "GET", path)
    \/ \E p \in 1..NumCalls : FindStep(p)

SpecConc == Init /\ [][NextConc]_vars

\* GET routes and requests whose segments may be a bare * or a bare :
NextBare ==
    \/ /\ nHandle < MaxHandles
       /\ \E path \in BarePatterns :
             Handle("GET", path, DeepPayload.handler, DeepPayload.optionFns)
    \/ \E path \in BareReqPaths : DoSearch("GET", path)

SpecBare == Init /\ [][NextBare]_vars

TypeOK ==
    /\ DOMAIN trees \subseteq RegMethods
    /\ \A m \in DOMAIN trees : << >> \in DOMAIN trees[m]
    /\ nHandle \in 0..MaxHandles

\* ------------------------------------------------- vocabulary of the claims
\* the segments of a pattern or of a request path
Segs(path) == Split(TrimPrefix(path))

\* the node a pattern ends at: one child key per segment
EndpointId(path) == [i \in 1..Len(Segs(path)) |-> KeyOf(Segs(path)[i])]

\* segment k of a pattern is a named parameter :name
IsNamedSeg(k) == Len(k) > 1 /\ k[1] = ":"

RECURSIVE Matches(_, _)
\* the request segments req match the pattern segments pat: literal segments
\* equal, exactly one segment per :name, zero or more for a trailing *name
Matches(pat, req) ==
    IF Len(pat) = 0 THEN Len(req) = 0
    ELSE IF IsStarSeg(pat[1]) THEN Len(pat) = 1
    ELSE IF Len(req) = 0 THEN FALSE
    ELSE IF IsNamedSeg(pat[1]) THEN Matches(Tail(pat), Tail(req))
    ELSE pat[1] = req[1] /\ Matches(Tail(pat), Tail(req))

\* the step is a Handle call (recorded in last')
HandleStep == nHandle' = nHandle + 1

\* the node the last Search returned
LastNode == trees[last.tree][last.node]

\* the nodes of all tries below their roots, with what they carry
NodesOf(tr) ==
    UNION {{<<m, n, tr[m][n]>> : n \in DOMAIN tr[m] \ {<< >>}} : m \in DOMAIN tr}

\* -------------------------------------------------------------------- C1
\* C1: a request path that matches a registered pattern P of the request's
\* method, and no other pattern registered under that method, resolves to
\* the node carrying the handler and tag registered for P.
C1_MatchResolves ==
    last.op = "Search" =>
        \A key \in DOMAIN registered :
            ( /\ key[1] = last.method
              /\ Matches(Segs(key[2]), Segs(last.path))
              /\ \A other \in DOMAIN registered :
                    (other[1] = key[1] /\ other # key)
                        => ~Matches(Segs(other[2]), Segs(last.path)) )
            => /\ last.found
               /\ LastNode.Handler = registered[key].Handler
               /\ LastNode.Option = registered[key].Option

\* -------------------------------------------------------------------- C2
\* C2: every node returned by Search carries a handler.
C2_FoundHasHandler ==
    (last.op = "Search" /\ last.found) => LastNode.Handler # NilHandler

\* -------------------------------------------------------------------- C3
\* node n of trie t was created for a *name segment that ends its pattern
IsTrailingStarNode(t, n) ==
    /\ n # << >>
    /\ Len(Segs(t[n].Path)) = Len(n)
    /\ IsStarSeg(Segs(t[n].Path)[Len(n)])

\* C3: a Search that ends at a trailing wildcard *name binds name to "/"
\* followed by the remaining request segments, from the wildcard's position
\* on, joined with "/" (to "/" alone when none remains), whatever their text.
C3_StarBindsRemainder ==
    (last.op = "Search" /\ last.found
        /\ IsTrailingStarNode(trees[last.tree], last.node))
    => /\ LastNode.Param \in DOMAIN last.params
       /\ last.params[LastNode.Param] =
             <<"/">> \o JoinSlash(SubSeq(Segs(last.path), Len(last.node),
                                         Len(Segs(last.path))))

\* -------------------------------------------------------------------- C4
\* C4: when Search returns the endpoint of a registered pattern P, every
\* :name of P is bound, under the name written in P, to the request segment
\* at its position.
C4_NamedBinding ==
    ( /\ last.op = "Search"
      /\ last.found
      /\ <<last.tree, LastNode.Path>> \in DOMAIN registered
      /\ last.node = EndpointId(LastNode.Path) )
    => \A i \in 1..Len(Segs(LastNode.Path)) :
          IsNamedSeg(Segs(LastNode.Path)[i])
          => /\ Tail(Segs(LastNode.Path)[i]) \in DOMAIN last.params
             /\ last.params[Tail(Segs(LastNode.Path)[i])] = Segs(last.path)[i]

\* -------------------------------------------------------------------- C5
\* C5: once Handle(M, P) has succeeded, every later Handle(M, P) returns
\* ErrRouterDuplicate, and the endpoint of P keeps the handler and the tag
\* of the first registration through every later step.
C5_DuplicateRejected ==
    [][\A key \in DOMAIN registered :
          /\ EndpointId(key[2]) \in DOMAIN trees'[key[1]]
          /\ trees'[key[1]][EndpointId(key[2])].Handler = registered[key].Handler
          /\ trees'[key[1]][EndpointId(key[2])].Option = registered[key].Option
          /\ (HandleStep /\ last'.method = key[1] /\ last'.path = key[2])
                => last'.err = ErrRouterDuplicate]_vars

\* a second Handle of a registered pattern with another handler and tag was
\* rejected as a duplicate
C5_Witness ==
    /\ last.op = "Handle"
    /\ last.err = ErrRouterDuplicate
    /\ <<last.method, last.path>> \in DOMAIN registered
    /\ HandlerOrNoop(last.handler) # registered[<<last.method, last.path>>].Handler
    /\ BuildOption(last.optionFns) # registered[<<last.method, last.path>>].Option

\* -------------------------------------------------------------------- C6
\* C6: a Handle call whose pattern has two or more *name segments returns
\* ErrRouterSyntax and adds no node to any trie (the root of a method seen
\* for the first time is the trie itself).
C6_TwoStarsRejected ==
    [][(HandleStep /\ CountStars(Segs(last'.path)) >= 2)
          => /\ last'.err = ErrRouterSyntax
             /\ NodesOf(trees') = NodesOf(trees)]_vars

\* a pattern with two *name segments was rejected in a trie that already
\* holds the first of them
C6_Witness ==
    /\ last.op = "Handle"
    /\ CountStars(Segs(last.path)) >= 2
    /\ last.err = ErrRouterSyntax
    /\ last.method \in DOMAIN trees
    /\ <<WildKey>> \in DOMAIN trees[last.method]

\* -------------------------------------------------------------------- C7
\* some segment follows a *name segment in the pattern
SegAfterStar(pat) ==
    \E i \in 1..Len(pat) : IsStarSeg(pat[i]) /\ i < Len(pat)

\* C7: a pattern in which a segment follows a *name segment is rejected with
\* ErrRouterSyntax, and no trie holds a node below a *name node.
C7_StarMustBeLast ==
    /\ (last.op = "Handle" /\ SegAfterStar(Segs(last.path)))
          => last.err = ErrRouterSyntax
    /\ \A m \in DOMAIN trees : \A n \in DOMAIN trees[m] :
          (n # << >> /\ IsStarSeg(Segs(trees[m][n].Path)[Len(n)]))
              => ~HasChild(trees[m], n, WildKey)
                 /\ \A k \in PatSegs : ~HasChild(trees[m], n, k)

\* -------------------------------------------------------------------- C8
\* C8: for a request method m other than ANY, Search returns the match of
\* the m trie when that trie exists and matches; otherwise what the ANY trie
\* resolves the path to, when an ANY trie exists; otherwise no match.
C8_MethodFallback ==
    (last.op = "Search" /\ last.method # MethodAny) =>
        LET own == last.method \in DOMAIN trees
                      /\ find(trees[last.method], last.path).found
            res == [found |-> last.found, node |-> last.node,
                    params |-> last.params]
        IN  IF own
            THEN last.tree = last.method
                    /\ res = find(trees[last.method], last.path)
            ELSE IF MethodAny \in DOMAIN trees
                 THEN res = find(trees[MethodAny], last.path)
                         /\ (last.found => last.tree = MethodAny)
                 ELSE ~last.found

\* a GET request the GET trie does not match was answered from the ANY trie
C8_Witness ==
    /\ last.op = "Search"
    /\ last.method = "GET"
    /\ "GET" \in DOMAIN trees
    /\ DOMAIN trees["GET"] # {<< >>}
    /\ ~find(trees["GET"], last.path).found
    /\ last.found
    /\ last.tree = MethodAny

\* -------------------------------------------------------------------- C9
\* the routes of method m registered in reg that pattern path extends by
\* at least one segment which is no node of the trie yet
C9_Shorter(tr, reg, m, path) ==
    {key \in DOMAIN reg :
        /\ key[1] = m
        /\ Len(Segs(key[2])) < Len(Segs(path))
        /\ SubSeq(Segs(path), 1, Len(Segs(key[2]))) = Segs(key[2])
        /\ SubSeq(EndpointId(path), 1, Len(Segs(key[2])) + 1)
              \notin DOMAIN tr[m]}

\* some request path that matches the pattern resolves to the pattern's
\* endpoint, and that node carries handler and option pl
C9_Resolves(tr, m, path, pl) ==
    \E req \in DeepReqPaths :
        /\ Matches(Segs(path), Segs(req))
        /\ Search(tr, m, req).found
        /\ Search(tr, m, req).tree = m
        /\ Search(tr, m, req).node = EndpointId(path)
        /\ tr[m][EndpointId(path)].Handler = pl.Handler
        /\ tr[m][EndpointId(path)].Option = pl.Option

\* C9: registering a pattern without *name that extends a registered route
\* of the same method by a segment not yet in the trie succeeds, and then
\* the shorter and the longer route both resolve to their own handlers.
C9_ExtensionResolves ==
    [][(HandleStep /\ CountStars(Segs(last'.path)) = 0
            /\ last'.method \in DOMAIN trees)
          => \A key \in C9_Shorter(trees, registered, last'.method, last'.path) :
                /\ last'.err = ErrNil
                /\ C9_Resolves(trees', key[1], key[2], registered[key])
                /\ C9_Resolves(trees', last'.method, last'.path,
                       [Handler |-> HandlerOrNoop(last'.handler),
                        Option |-> BuildOption(last'.optionFns)])]_vars

\* ------------------------------------------------------------------- C10
\* the pattern has a *name segment, its first segment is a child of the
\* method's root and its second segment is no child of that node
C10_Case(tr, method, path) ==
    /\ method \in DOMAIN tr
    /\ CountStars(Segs(path)) >= 1
    /\ Len(Segs(path)) >= 2
    /\ <<KeyOf(Segs(path)[1])>> \in DOMAIN tr[method]
    /\ <<KeyOf(Segs(path)[1]), KeyOf(Segs(path)[2])>> \notin DOMAIN tr[method]

\* C10: registering a pattern with a *name segment whose first segment
\* exists under the method's root and whose second segment has no child
\* there returns ErrRouterSyntax and leaves every trie unchanged.
C10_StarUnderExisting ==
    [][(HandleStep /\ C10_Case(trees, last'.method, last'.path))
          => /\ last'.err = ErrRouterSyntax
             /\ trees' = trees]_vars

\* /a/*y was rejected where /a is registered and has no child
C10_Witness ==
    /\ last.op = "Handle"
    /\ last.err = ErrRouterSyntax
    /\ CountStars(Segs(last.path)) = 1
    /\ C10_Case(trees, last.method, last.path)
    /\ <<last.method, <<"/">> \o Segs(last.path)[1]>> \in DOMAIN registered

\* ------------------------------------------------------------------- C11
\* the segment sequences p and q have the same length and differ at most
\* in the names or sigils of their capture segments
SameShape(p, q) ==
    /\ Len(p) = Len(q)
    /\ \A i \in 1..Len(p) : p[i] = q[i] \/ (IsCapture(p[i]) /\ IsCapture(q[i]))

\* the Handle call of this step registers, under a method that already has
\* a registered pattern of the same shape, a pattern that differs from it
C11_Case ==
    /\ HandleStep
    /\ \E key \in DOMAIN registered :
          /\ key[1] = last'.method
          /\ key[2] # last'.path
          /\ SameShape(Segs(key[2]), Segs(last'.path))

\* C11 as stated: once P is registered under M, registering under M any
\* pattern that differs from P only in the names or sigils of its capture
\* segments returns ErrRouterDuplicate.
C11_AliasDuplicate ==
    [][C11_Case => last'.err = ErrRouterDuplicate]_vars

\* C11, amended: the variant returns ErrRouterDuplicate when it has at most
\* one *name segment, and ErrRouterSyntax when it has two or more; in both
\* cases no trie changes.
C11_AliasRejected ==
    [][C11_Case =>
          /\ last'.err = IF CountStars(Segs(last'.path)) > 1
                         THEN ErrRouterSyntax ELSE ErrRouterDuplicate
          /\ trees' = trees]_vars

\* a capture variant of a registered pattern was rejected as a duplicate
C11_Witness ==
    /\ last.op = "Handle"
    /\ last.err = ErrRouterDuplicate
    /\ \E key \in DOMAIN registered :
          /\ key[1] = last.method
          /\ key[2] # last.path
          /\ SameShape(Segs(key[2]), Segs(last.path))
          /\ \E i \in 1..Len(Segs(key[2])) : IsCapture(Segs(key[2])[i])

\* ------------------------------------------------------------------- C12
\* the method map tr without the tries of the methods other than method
OnlyMethod(tr, method) == [m \in DOMAIN tr \cap {method} |-> tr[m]]

\* C12: a Handle call under M returns what it returns on a router holding
\* M's trie alone, leaves the trie of every other method as it was, and
\* succeeds for a pattern with at most one *name when nothing was registered
\* under M, whatever the other methods hold.
C12_PerMethod ==
    [][HandleStep =>
          LET m == last'.method
              alone == WithRoot(OnlyMethod(trees, m), m)
          IN  /\ \A o \in DOMAIN trees \ {m} :
                    o \in DOMAIN trees' /\ trees'[o] = trees[o]
              /\ DOMAIN trees' = DOMAIN trees \cup {m}
              /\ last'.err = add(alone[m], last'.path,
                                 HandlerOrNoop(last'.handler),
                                 BuildOption(last'.optionFns)).err
              /\ ( /\ \A key \in DOMAIN registered : key[1] # m
                   /\ CountStars(Segs(last'.path)) <= 1 )
                 => last'.err = ErrNil]_vars

\* the same pattern is registered under two methods
C12_Witness ==
    /\ last.op = "Handle"
    /\ last.err = ErrNil
    /\ \E key \in DOMAIN registered :
          key[1] # last.method /\ key[2] = last.path
    /\ <<last.method, last.path>> \in DOMAIN registered

\* ------------------------------------------------------------------- C13
\* what a Search result says: match or not, where, and the bindings
Outcome(res) ==
    [found |-> res.found, tree |-> res.tree, node |-> res.node,
     params |-> res.params]

\* r.trees after the Handle call of this step had it been given the non-nil
\* handler h, and the error it would have returned
WithHandler(h) ==
    LET m == last'.method
        tr == WithRoot(trees, m)
        res == add(tr[m], last'.path, h, BuildOption(last'.optionFns))
    IN  [err |-> res.err, trees |-> [tr EXCEPT ![m] = res.t]]

\* C13: a Handle call with a nil handler returns what the same call with a
\* non-nil handler returns; on success the endpoint carries Noop, and every
\* Search resolves as it would had the handler been non-nil.
C13_NilHandler ==
    [][(HandleStep /\ last'.handler = NilHandler) =>
          LET alt == WithHandler("h1")
              m == last'.method
              e == EndpointId(last'.path)
          IN  /\ last'.err = alt.err
              /\ last'.err = ErrNil =>
                    /\ trees'[m][e].Handler = Noop
                    /\ ~NoLeaf(trees'[m][e])
                    /\ alt.trees[m][e].Handler = "h1"
              /\ \A rm \in ReqMethods, rp \in ReqPaths :
                    Outcome(Search(trees', rm, rp))
                        = Outcome(Search(alt.trees, rm, rp))]_vars

\* a route registered with a nil handler is what a request resolves to
C13_Witness ==
    /\ last.op = "Handle"
    /\ last.handler = NilHandler
    /\ last.err = ErrNil
    /\ \E rp \in ReqPaths :
          LET res == Search(trees, last.method, rp)
          IN  /\ res.found
              /\ res.tree = last.method
              /\ res.node = EndpointId(last.path)
              /\ trees[res.tree][res.node].Handler = Noop

\* ------------------------------------------------------------------- C14
\* C14: a panic raised while the chain of a matched route runs is recovered
\* inside ServeHTTP: the panic handler is invoked exactly once, with the
\* panic value, and the panic does not leave ServeHTTP.
C14_PanicRecovered ==
    (last.op = "ServeHTTP" /\ served.panic # NoPanic) =>
        /\ served.panicHandler = <<served.panic>>
        /\ ~served.escaped

\* the route's handler panicked below a middleware
C14_Witness ==
    /\ last.op = "ServeHTTP"
    /\ last.found
    /\ served.panicAt = 0
    /\ served.panic = PanicValue(LastNode.Handler)
    /\ Len(served.entered) >= 1
    /\ served.handler # << >>

\* ------------------------------------------------------------------- C15
\* C15: a served request invokes the not-found handler, once, when Search
\* returns no node, and otherwise the matched node's handler, once, with the
\* resolved parameters and the route's tag in the request context (unless a
\* middleware of the chain panicked above it); never both.
C15_OneOfTwo ==
    last.op = "ServeHTTP" =>
        IF ~last.found
        THEN served.notFound = 1 /\ served.handler = << >>
        ELSE /\ served.notFound = 0
             /\ served.panicAt < 1 =>
                   served.handler =
                       <<[Handler |-> LastNode.Handler,
                          Params |-> last.params,
                          Option |-> LastNode.Option]>>

\* ------------------------------------------------------------------- C16
\* a registered pattern of method m ends in a *name below the node parent
StarChildAt(m, parent) ==
    \E key \in DOMAIN registered :
        LET segs == Segs(key[2])
        IN  /\ key[1] = m
            /\ IsStarSeg(segs[Len(segs)])
            /\ EndpointId(key[2]) = Append(parent, WildKey)

\* the node parent of m's trie has a literal child
LiteralChildAt(m, parent) ==
    \E n \in DOMAIN trees[m] :
        /\ Len(n) = Len(parent) + 1
        /\ SubSeq(n, 1, Len(parent)) = parent
        /\ n[Len(n)] # WildKey

\* C16: in no trie does a node have both a trailing-wildcard child and a
\* literal child.
C16_NoLiteralBesideStar ==
    \A m \in DOMAIN trees : \A parent \in DOMAIN trees[m] :
        ~(StarChildAt(m, parent) /\ LiteralChildAt(m, parent))

\* ------------------------------------------------------------------- C17
\* the successful registrations of method m that ended at node n
EndedAt(m, n) ==
    {key \in DOMAIN registered : key[1] = m /\ EndpointId(key[2]) = n}

\* C17: a node carries a handler exactly when a successful registration
\* ended at it, and its handler and tag are those of that registration
\* (the first one, whatever was called later); the other nodes carry none.
C17_HandlerIffRegistered ==
    \A m \in DOMAIN trees : \A n \in DOMAIN trees[m] :
        /\ trees[m][n].Handler # NilHandler <=> EndedAt(m, n) # {}
        /\ \A key \in EndedAt(m, n) :
              /\ trees[m][n].Handler = registered[key].Handler
              /\ trees[m][n].Option = registered[key].Option

\* a route below an intermediate node kept its handler and tag when a
\* second Handle with another handler was made for its endpoint
C17_Witness ==
    /\ last.op = "Handle"
    /\ last.err # ErrNil
    /\ last.handler = NilHandler
    /\ Len(EndpointId(last.path)) = 2
    /\ last.method \in DOMAIN trees
    /\ EndpointId(last.path) \in DOMAIN trees[last.method]
    /\ trees[last.method][EndpointId(last.path)].Handler = "h1"
    /\ trees[last.method][EndpointId(last.path)].Option = <<"t">>
    /\ trees[last.method][<<EndpointId(last.path)[1]>>].Handler = NilHandler

\* ------------------------------------------------------------------- C18
\* the patterns /l1/l2 and /l1/:name are both registered under method m
C18_Both(m, l1, l2, name) ==
    /\ <<m, MkPath(<<l1, l2>>)>> \in DOMAIN registered
    /\ <<m, MkPath(<<l1, <<":">> \o name>>)>> \in DOMAIN registered

\* C18: with /l1/l2 and /l1/:name registered under the request's method, a
\* request for /l1/l2 resolves to the node of /l1/l2 with no parameter, and
\* a request for /l1/c with another c resolves to the node of /l1/:name with
\* name bound to c.
C18_LiteralPreferred ==
    last.op = "Search" =>
        \A l1, l2 \in {s \in PatSegs : ~IsCapture(s)} :
            \A c \in ReqSegs : \A name \in {<<"x">>} :
                ( /\ C18_Both(last.method, l1, l2, name)
                  /\ last.path = MkPath(<<l1, c>>) )
                => IF c = l2
                   THEN /\ last.found
                        /\ last.tree = last.method
                        /\ last.node = <<l1, l2>>
                        /\ last.params = EmptyMap
                        /\ LastNode.Handler
                              = registered[<<last.method,
                                             MkPath(<<l1, l2>>)>>].Handler
                   ELSE /\ last.found
                        /\ last.tree = last.method
                        /\ last.node = <<l1, WildKey>>
                        /\ last.params = MapPut(EmptyMap, name, c)
                        /\ LastNode.Handler
                              = registered[<<last.method,
                                   MkPath(<<l1, <<":">> \o name>>)>>].Handler

\* /a/b was resolved through the capture child while /a/a is registered
C18_Witness ==
    /\ last.op = "Search"
    /\ C18_Both(last.method, <<"a">>, <<"a">>, <<"x">>)
    /\ last.path = MkPath(<<<<"a">>, <<"b">>>>)
    /\ last.found
    /\ last.node = <<<<"a">>, WildKey>>

\* ------------------------------------------------------------------- C19
\* every segment of the pattern of this step's Handle call already has its
\* node in the method's trie
C19_Case ==
    /\ HandleStep
    /\ last'.method \in DOMAIN trees
    /\ \A i \in 1..Len(EndpointId(last'.path)) :
          SubSeq(EndpointId(last'.path), 1, i) \in DOMAIN trees[last'.method]

\* C19 as stated: registering a pattern all of whose segments already exist
\* as nodes returns ErrRouterDuplicate and stores no handler.
C19_ExistingDuplicate ==
    [][C19_Case => (last'.err = ErrRouterDuplicate /\ trees' = trees)]_vars

\* C19, amended: such a registration stores no handler and returns
\* ErrRouterDuplicate, unless the pattern has two or more *name segments:
\* then it returns ErrRouterSyntax.
C19_ExistingRejected ==
    [][C19_Case =>
          /\ last'.err = IF CountStars(Segs(last'.path)) > 1
                         THEN ErrRouterSyntax ELSE ErrRouterDuplicate
          /\ trees' = trees]_vars

\* a pattern that was never registered and ends at a node without handler
\* was rejected as a duplicate
C19_Witness ==
    /\ last.op = "Handle"
    /\ last.err = ErrRouterDuplicate
    /\ \A key \in DOMAIN registered :
          key[1] = last.method => ~SameShape(Segs(key[2]), Segs(last.path))
    /\ last.method \in DOMAIN trees
    /\ EndpointId(last.path) \in DOMAIN trees[last.method]
    /\ trees[last.method][EndpointId(last.path)].Handler = NilHandler

\* ------------------------------------------------------------------- C20
\* what Search(method, path) resolves to on the method map tr: match or
\* not, the node, its handler and tag, and the bindings
Resolved(tr, method, path) ==
    LET res == Search(tr, method, path)
    IN  IF res.found
        THEN [found |-> TRUE, tree |-> res.tree, node |-> res.node,
              handler |-> tr[res.tree][res.node].Handler,
              option |-> tr[res.tree][res.node].Option,
              params |-> res.params]
        ELSE [found |-> FALSE, tree |-> "", node |-> << >>,
              handler |-> NilHandler, option |-> << >>, params |-> EmptyMap]

\* C20: a Handle call that returns an error adds no node and changes
\* nothing a node carries (the root of a method seen for the first time is
\* the trie itself), and every Search resolves after it as before.
C20_FailedHandleNoEffect ==
    [][(HandleStep /\ last'.err # ErrNil) =>
          /\ NodesOf(trees') = NodesOf(trees)
          /\ \A rm \in ReqMethods, rp \in ReqPaths :
                Resolved(trees', rm, rp) = Resolved(trees, rm, rp)]_vars

\* a Handle call failed under a method without routes while the other
\* method has a route that requests resolve to
C20_Witness ==
    /\ last.op = "Handle"
    /\ last.err # ErrNil
    /\ DOMAIN trees[last.method] = {<< >>}
    /\ \E rm \in ReqMethods, rp \in ReqPaths : Resolved(trees, rm, rp).found

\* ------------------------------------------------------------------- C21
\* the step is a step of one of the concurrent Search calls
SearchStep == calls' # calls

\* C21: no step of a Search call changes the router, its method map or a
\* trie node, and every call that has returned, whatever the steps of the
\* other calls in between, returned what Search returns for its method and
\* path when it runs alone.
C21_ConcurrentSearch ==
    [][SearchStep =>
          /\ trees' = trees
          /\ middlewares' = middlewares
          /\ \A p \in 1..NumCalls :
                calls'[p].pc = "done" =>
                    calls'[p].result
                        = Search(trees', calls'[p].method, calls'[p].path)]_vars

\* a call returned a node and bindings while another call, for another
\* path, was in the middle of find with a binding of its own
C21_Witness ==
    \E p, q \in 1..NumCalls :
        /\ calls[p].pc = "done"
        /\ calls[p].result.found
        /\ calls[p].result.params # EmptyMap
        /\ calls[q].pc = "find"
        /\ calls[q].path # calls[p].path
        /\ calls[q].params # EmptyMap
        /\ calls[q].params # calls[p].result.params

\* ------------------------------------------------------------------- C22
\* the child slots of a pattern when the slot of captures is distinct from
\* every literal text
DistinctId(path) ==
    [i \in 1..Len(Segs(path)) |->
        IF IsCapture(Segs(path)[i]) THEN <<"capture">> ELSE Segs(path)[i]]

\* the sequence p is a prefix of the sequence q
IsPrefix(p, q) == Len(p) <= Len(q) /\ SubSeq(q, 1, Len(p)) = p

\* C22: a segment that is not a capture, a bare * or a bare : included,
\* never shares the child slot of captures: a Handle call returns
\* ErrRouterDuplicate only when a registered pattern of the method has the
\* same segments, captures standing for one another, up to its length; and
\* a Search returns a node only for a request whose segments equal the
\* literal segments of a pattern registered at that node.
C22_LiteralNotCapture ==
    /\ (last.op = "Handle" /\ last.err = ErrRouterDuplicate) =>
          \E key \in DOMAIN registered :
              /\ key[1] = last.method
              /\ IsPrefix(DistinctId(last.path), DistinctId(key[2]))
    /\ (last.op = "Search" /\ last.found) =>
          \E key \in DOMAIN registered :
              /\ key[1] = last.tree
              /\ EndpointId(key[2]) = last.node
              /\ Matches(Segs(key[2]), Segs(last.path))

\* ------------------------------------------------------------------- C23
\* the sequence s from its last element to its first
Reverse(s) == [i \in 1..Len(s) |-> s[Len(s) + 1 - i]]

\* C23: Use appends to the stack and touches no route, and a matched
\* request in which nothing panics enters all middlewares of the stack as
\* it is when the request is served, the one added last first and the one
\* added first last, and then the route's handler, once.
C23_ChainOrder ==
    [][/\ middlewares' # middlewares =>
             /\ IsPrefix(middlewares, middlewares')
             /\ trees' = trees
       /\ ( /\ last'.op = "ServeHTTP"
            /\ last'.found
            /\ served'.panic = NoPanic )
          => /\ served'.entered = Reverse(middlewares')
             /\ Len(served'.handler) = 1
             /\ served'.handler[1].Handler
                   = trees'[last'.tree][last'.node].Handler]_vars

\* after Use(m1) and Use(m2) a matched request entered m2, then m1, then
\* the handler of its route
C23_Witness ==
    /\ last.op = "ServeHTTP"
    /\ last.found
    /\ middlewares = <<"m1", "m2">>
    /\ served.entered = <<"m2", "m1">>
    /\ served.panic = NoPanic
    /\ served.handler # << >>
    /\ served.handler[1].Handler = "h1"

====
